---- MODULE Spec2Model ----
(***************************************************************************)
(* notebooks/idr0062_prediction_zarr_public_s3.ipynb                       *)
(*                                                                         *)
(* The notebook loads an IDR image and its curated labels from a public S3 *)
(* Zarr store, runs StarDist on every z plane of channel 0 and shows the   *)
(* curated and the predicted labels side by side in a slider widget.       *)
(*                                                                         *)
(* Strings are sequences of one-character strings, python's 0-based        *)
(* sequences are functions over 0..n-1 (arrays) or TLA+ sequences read     *)
(* through At (lists). A 2D plane (y, x) is abstracted to one number.      *)
(***************************************************************************)
EXTENDS Integers, Sequences, FiniteSets, TLC

VARIABLES
    pc,               \* the cell the run is at, "interactive", or "stopped"
    error,            \* the step whose exception ended the run, or None
    image_id,         \* notebook global image_id
    store_nz,         \* z extent of the remote intensity array
    store_labels_nz,  \* z extent of the remote label array
    call,             \* the last call of a load_*_from_s3 helper
    opened,           \* URLs handed to da.from_zarr, in order
    image_chunks_read,  \* <<c, z>> planes of the intensity array read remotely
    label_chunks_read,  \* z planes of the label array read remotely
    data,             \* notebook global data (numpy array) or None
    labels,           \* notebook global labels (lazy dask array) or None
    model_versatile,  \* notebook global model_versatile or None
    img,              \* notebook global img (normalised stack) or None
    results,          \* notebook global results (python list)
    pretrained_calls, \* names handed to StarDist2D.from_pretrained, in order
    predict_calls,    \* z index of every predict_instances call, in order
    label_slices,     \* notebook global label_slices or None
    slider,           \* value of the IntSlider, or None before it exists
    display,          \* what the last update call drew, or None
    seen,             \* first display recorded per (z, label read outcome)
    revisit           \* the last update call repeated a recorded (z, outcome)

vars == <<pc, error, image_id, store_nz, store_labels_nz, call, opened,
          image_chunks_read, label_chunks_read, data, labels, model_versatile,
          img, results, pretrained_calls, predict_calls, label_slices, slider,
          display, seen, revisit>>

\* python's None / an unbound name, and a bound value
None == <<>>
Some(v) == <<v>>
Get(o) == o[1]

\* no exception
NoError == "none"

\* the resolution argument left out of a call
Omitted == <<"omitted">>

\* Largest z extent of the remote arrays the model explores.
MaxZ == 3

\* Image ids 0..MaxId are tried next to the notebook's own id.
MaxId == 12

(***************************************************************************)
(* python helpers                                                          *)
(***************************************************************************)
Digit(d) == CASE d = 0 -> "0" [] d = 1 -> "1" [] d = 2 -> "2" [] d = 3 -> "3"
              [] d = 4 -> "4" [] d = 5 -> "5" [] d = 6 -> "6" [] d = 7 -> "7"
              [] d = 8 -> "8" [] d = 9 -> "9"

RECURSIVE IntToStr(_)
\* '%s' % n for a non-negative int n: its decimal digits
IntToStr(n) == IF n < 10 THEN <<Digit(n)>>
               ELSE IntToStr(n \div 10) \o <<Digit(n % 10)>>

\* a python list read at a 0-based index
At(list, i) == list[i + 1]

\* planes of a stack in iteration order
Range0(n) == 0 .. (n - 1)

SetMin(S) == CHOOSE x \in S : \A y \in S : x <= y

SetMax(S) == CHOOSE x \in S : \A y \in S : x >= y

(***************************************************************************)
(* The remote store                                                        *)
(***************************************************************************)
\* image_id = 6001247
IDR_IMAGE_ID == 6001247

\* data.shape = (1, 2, 257, 210, 253): one sample, two channels
Samples == {0}
Channels == {0, 1}

\* labels.shape = (1, 1, 257, 210, 253): one sample, one label channel
LabelChannels == {0}

\* intensity of plane (c, z) in the store: every plane is different
StoreImage(nz) ==
    [s \in Samples |-> [c \in Channels |-> [z \in Range0(nz) |-> 10 * c + z + 1]]]

\* curated label plane z in the store
StoreLabels(nz) ==
    [s \in Samples |-> [c \in LabelChannels |-> [z \in Range0(nz) |-> 100 + z]]]

(***************************************************************************)
(* load_binary_from_s3 / load_labels_from_s3                               *)
(***************************************************************************)
\* resolution='0'
default_resolution == <<"0">>

\* endpoint_url = 'https://s3.embassy.ebi.ac.uk/'
endpoint_url ==
    <<"h","t","t","p","s",":","/","/","s","3",".","e","m","b","a","s","s","y",
      ".","e","b","i",".","a","c",".","u","k","/">>

binary_root_leading_slash(id, resolution) ==
    <<"/","i","d","r","/","z","a","r","r","/","v","0",".","1","/">>
        \o IntToStr(id) \o <<".","z","a","r","r","/">> \o resolution \o <<"/">>

\* root = 'idr/zarr/v0.1/%s.zarr/%s/' % (id, resolution)
binary_root(id, resolution) ==
    <<"i","d","r","/","z","a","r","r","/","v","0",".","1","/">>
        \o IntToStr(id) \o <<".","z","a","r","r","/">> \o resolution \o <<"/">>

labels_root_singular(id, resolution) ==
    <<"i","d","r","/","z","a","r","r","/","v","0",".","1","/">>
        \o IntToStr(id) \o <<".","z","a","r","r","/">>
        \o <<"l","a","b","e","l","/">> \o resolution \o <<"/">>

\* root = 'idr/zarr/v0.1/%s.zarr/labels/%s/' % (id, resolution)
labels_root(id, resolution) ==
    <<"i","d","r","/","z","a","r","r","/","v","0",".","1","/">>
        \o IntToStr(id) \o <<".","z","a","r","r","/">>
        \o <<"l","a","b","e","l","s","/">> \o resolution \o <<"/">>

\* the argument of da.from_zarr in load_binary_from_s3
load_binary_url(id, resolution) == endpoint_url \o binary_root(id, resolution)

\* the argument of da.from_zarr in load_labels_from_s3
load_labels_url(id, resolution) == endpoint_url \o labels_root(id, resolution)

\* the resolution a helper works with: the argument, or the default
Resolved(arg) == IF arg = Omitted THEN default_resolution ELSE arg

load_labels_chunks_eager(nz) == Range0(nz)

\* return da.from_zarr(...): the label array stays lazy, nothing is read
load_labels_chunks(nz) == {}

\* return numpy.asarray(da.from_zarr(...)): every chunk is read
load_binary_chunks(nz) == Channels \X Range0(nz)

(***************************************************************************)
(* Initial state: a fresh kernel, and a store of some z extent             *)
(***************************************************************************)
Init ==
    /\ pc = "configure"
    /\ error = NoError
    /\ image_id = None
    /\ store_nz \in 1 .. MaxZ
    /\ store_labels_nz \in 1 .. MaxZ
    /\ call = None
    /\ opened = <<>>
    /\ image_chunks_read = {}
    /\ label_chunks_read = {}
    /\ data = None
    /\ labels = None
    /\ model_versatile = None
    /\ img = None
    /\ results = <<>>
    /\ pretrained_calls = <<>>
    /\ predict_calls = <<>>
    /\ label_slices = None
    /\ slider = None
    /\ display = None
    /\ seen = <<>>
    /\ revisit = FALSE

(***************************************************************************)
(* Calls of the two helpers                                                *)
(***************************************************************************)
\* load_binary_from_s3(id, resolution); ok: the remote open and read succeed,
\* otherwise the exception comes after any part of the chunks was read
load_binary_from_s3(id, resolution, ok) ==
    LET url == load_binary_url(id, Resolved(resolution))
        all == load_binary_chunks(store_nz)
    IN  /\ call' = Some([fn |-> "load_binary_from_s3", id |-> id,
                         resolution |-> resolution, url |-> url])
        /\ opened' = Append(opened, url)
        /\ IF ok THEN image_chunks_read' = image_chunks_read \cup all
                 ELSE \E part \in SUBSET all :
                         /\ part # all
                         /\ image_chunks_read' = image_chunks_read \cup part
        /\ UNCHANGED label_chunks_read

\* load_labels_from_s3(id, resolution); ok: the remote open succeeds
load_labels_from_s3(id, resolution, ok) ==
    LET url == load_labels_url(id, Resolved(resolution))
        all == load_labels_chunks(store_labels_nz)
    IN  /\ call' = Some([fn |-> "load_labels_from_s3", id |-> id,
                         resolution |-> resolution, url |-> url])
        /\ opened' = Append(opened, url)
        /\ IF ok THEN label_chunks_read' = label_chunks_read \cup all
                 ELSE \E part \in SUBSET all :
                         label_chunks_read' = label_chunks_read \cup part
        /\ UNCHANGED image_chunks_read

(***************************************************************************)
(* The cells, in notebook order                                            *)
(***************************************************************************)
next_cell_compare_first(cell) ==
    CASE cell = "configure"   -> "load_binary"
      [] cell = "load_binary" -> "load_labels"
      [] cell = "load_labels" -> "load_model"
      [] cell = "load_model"  -> "compare"
      [] cell = "compare"     -> "interactive"
      [] cell = "inference"   -> "interactive"

\* the code cells from top to bottom; the last one leaves the widget on screen
next_cell(cell) ==
    CASE cell = "configure"   -> "load_binary"
      [] cell = "load_binary" -> "load_labels"
      [] cell = "load_labels" -> "load_model"
      [] cell = "load_model"  -> "inference"
      [] cell = "inference"   -> "compare"
      [] cell = "compare"     -> "interactive"

Stop_and_go_on(step) ==
    /\ pc' = next_cell(pc)
    /\ error' = step

\* an exception leaves the cell uncaught: the run stops there
Stop(step) ==
    /\ pc' = "stopped"
    /\ error' = step

\* image_id = 6001247
ConfigureCell ==
    /\ pc = "configure"
    /\ image_id' = Some(IDR_IMAGE_ID)
    /\ pc' = next_cell(pc)
    /\ UNCHANGED <<error, store_nz, store_labels_nz, call, opened,
                   image_chunks_read, label_chunks_read, data, labels,
                   model_versatile, img, results, pretrained_calls, predict_calls, label_slices,
                   slider, display, seen, revisit>>

\* data = load_binary_from_s3(image_id)
LoadBinaryCell ==
    /\ pc = "load_binary"
    /\ \E ok \in BOOLEAN :
          /\ load_binary_from_s3(Get(image_id), Omitted, ok)
          /\ IF ok THEN /\ data' = Some(StoreImage(store_nz))
                        /\ pc' = next_cell(pc)
                        /\ UNCHANGED error
                   ELSE /\ Stop("load_binary_from_s3")
                        /\ UNCHANGED data
    /\ UNCHANGED <<image_id, store_nz, store_labels_nz, labels,
                   model_versatile, img, results, pretrained_calls, predict_calls, label_slices,
                   slider, display, seen, revisit>>

\* labels = load_labels_from_s3(image_id)
LoadLabelsCell ==
    /\ pc = "load_labels"
    /\ \E ok \in BOOLEAN :
          /\ load_labels_from_s3(Get(image_id), Omitted, ok)
          /\ IF ok THEN /\ labels' = Some([url |-> load_labels_url(Get(image_id), Resolved(Omitted)),
                                           nz |-> store_labels_nz])
                        /\ pc' = next_cell(pc)
                        /\ UNCHANGED error
                   ELSE /\ Stop("load_labels_from_s3")
                        /\ UNCHANGED labels
    /\ UNCHANGED <<image_id, store_nz, store_labels_nz, data,
                   model_versatile, img, results, pretrained_calls, predict_calls, label_slices,
                   slider, display, seen, revisit>>

\* model_versatile = StarDist2D.from_pretrained('2D_demo')
LoadModelCell ==
    /\ pc = "load_model"
    /\ pretrained_calls' = Append(pretrained_calls, "2D_demo")
    /\ \E ok \in BOOLEAN :
          IF ok THEN /\ model_versatile' = Some("2D_demo")
                     /\ pc' = next_cell(pc)
                     /\ UNCHANGED error
                ELSE /\ Stop("from_pretrained")
                     /\ UNCHANGED model_versatile
    /\ UNCHANGED <<image_id, store_nz, store_labels_nz, call, opened,
                   image_chunks_read, label_chunks_read, data, labels,
                   img, results, predict_calls, label_slices,
                   slider, display, seen, revisit>>

(***************************************************************************)
(* Inference cell                                                          *)
(***************************************************************************)
\* data.shape[2]
shape_z(array) == Cardinality(DOMAIN array[0][0])

\* normalize(x, 1, 99.8, axis=(0,1)): (x - mi) / (ma - mi + eps), with mi and
\* ma the low and high percentiles taken over the stack; kept symbolic
normalize(stack) ==
    LET values == {stack[z] : z \in DOMAIN stack}
    IN  [z \in DOMAIN stack |->
            [x |-> stack[z], mi |-> SetMin(values), ma |-> SetMax(values)]]

\* model_versatile.predict_instances(im)[0]: the label image of a plane
predict_instances(im) == [instances_of |-> im]

\* data[0, 0, :, :, :]
inference_stack(array) == array[0][0]

append_result_front(list, x) == <<x>> \o list

\* results.append(new_labels)
append_result(list, x) == Append(list, x)

\* img = normalize(data[0, 0, :, :, :], ...); results = []
InferenceStart ==
    /\ pc = "inference"
    /\ img = None
    /\ img' = Some(normalize(inference_stack(Get(data))))
    /\ results' = <<>>
    /\ UNCHANGED <<pc, error, image_id, store_nz, store_labels_nz, call, opened,
                   image_chunks_read, label_chunks_read, data, labels,
                   model_versatile, pretrained_calls, predict_calls, label_slices,
                   slider, display, seen, revisit>>

\* one iteration of: for im in img: ... predict_instances(im) ... append
PredictPlane ==
    /\ pc = "inference"
    /\ img # None
    /\ Len(results) < Cardinality(DOMAIN Get(img))
    /\ LET z == Len(results)
       IN  /\ predict_calls' = Append(predict_calls, z)
           /\ \E ok \in BOOLEAN :
                 IF ok THEN /\ results' = append_result(results,
                                              predict_instances(Get(img)[z]))
                            /\ UNCHANGED <<pc, error>>
                       ELSE /\ Stop("predict_instances")
                            /\ UNCHANGED results
    /\ UNCHANGED <<image_id, store_nz, store_labels_nz, call, opened,
                   image_chunks_read, label_chunks_read, data, labels,
                   model_versatile, img, pretrained_calls, label_slices,
                   slider, display, seen, revisit>>

\* the loop is exhausted: label_slices = numpy.array(results)
InferenceEnd ==
    /\ pc = "inference"
    /\ img # None
    /\ Len(results) = Cardinality(DOMAIN Get(img))
    /\ label_slices' = Some(results)
    /\ pc' = next_cell(pc)
    /\ UNCHANGED <<error, image_id, store_nz, store_labels_nz, call, opened,
                   image_chunks_read, label_chunks_read, data, labels,
                   model_versatile, img, results, pretrained_calls, predict_calls,
                   slider, display, seen, revisit>>

(***************************************************************************)
(* Compare cell: update and the slider                                     *)
(***************************************************************************)
\* exceptions the label overlay can raise that derive from Exception
ExceptionClasses == {"IndexError", "OSError", "NameError"}

\* exceptions that derive from BaseException only
BaseExceptionOnly == {"KeyboardInterrupt"}

except_catches_index_error(e) == (e = "IndexError")

\* except Exception:
except_catches(e) == e \in ExceptionClasses

\* what reading and drawing labels[0, 0, z, :, :] can end in
LabelOutcomes(z) ==
    IF labels = None THEN {"NameError"}
    ELSE IF z \notin Range0(Get(labels).nz) THEN {"IndexError"}
    ELSE {"ok", "OSError", "KeyboardInterrupt"}

left_image_plane(array, z) == array[0][0][z]

right_image_plane_channel_1(array, z) == array[0][1][z]

\* plt.imshow(data[0, 0, z, :, :], cmap='gray')
right_image_plane(array, z) == array[0][0][z]

\* labels[0, 0, z, :, :], computed from the store on access
left_overlay_plane(lazy, z) == StoreLabels(lazy.nz)[0][0][z]

\* label_slices[z, :, :]
right_overlay_plane(slices, z) == At(slices, z)

\* the figure update(z) builds when the label overlay ends in outcome o
update(z, o) ==
    LET dataOk   == data # None /\ z \in DOMAIN Get(data)[0][0]
        caught   == o # "ok" /\ except_catches(o)
        right    == dataOk /\ (o = "ok" \/ caught)
        slicesOk == label_slices # None /\ z < Len(Get(label_slices))
        raised   == IF ~dataOk THEN (IF data = None THEN "NameError" ELSE "IndexError")
                    ELSE IF ~right THEN o
                    ELSE IF ~slicesOk
                         THEN (IF label_slices = None THEN "NameError" ELSE "IndexError")
                    ELSE NoError
    IN  [z             |-> z,
         left_image    |-> IF dataOk THEN Some(left_image_plane(Get(data), z)) ELSE None,
         label_outcome |-> IF dataOk THEN o ELSE NoError,
         left_overlay  |-> IF dataOk /\ o = "ok"
                           THEN Some(left_overlay_plane(Get(labels), z)) ELSE None,
         printed       |-> IF dataOk /\ caught THEN <<z>> ELSE <<>>,
         right_image   |-> IF right THEN Some(right_image_plane(Get(data), z)) ELSE None,
         right_overlay |-> IF right /\ slicesOk
                           THEN Some(right_overlay_plane(Get(label_slices), z)) ELSE None,
         raised        |-> raised,
         completed     |-> raised = NoError]

update_keep_overlay(z, o) ==
    LET d == update(z, o)
    IN  IF d.left_overlay = None /\ display # None
        THEN [d EXCEPT !.left_overlay = Get(display).left_overlay]
        ELSE d

\* what the callback leaves on screen
callback_figure(z, o) == update(z, o)

\* whether plane z of the label array was fetched when the overlay ended in
\* outcome o: always when it was drawn, never when the index was refused
LabelPlaneFetched(o) ==
    CASE o = "ok" -> {TRUE}
      [] o \in {"IndexError", "NameError"} -> {FALSE}
      [] OTHER -> BOOLEAN

\* the callback runs for slider value z
RunUpdate(z) ==
    \E o \in LabelOutcomes(z) :
        LET d == callback_figure(z, o)
            k == <<z, o>>
        IN  /\ display' = Some(d)
            /\ \E fetched \in LabelPlaneFetched(o) :
                   label_chunks_read' =
                       IF fetched THEN label_chunks_read \cup {z}
                                  ELSE label_chunks_read
            /\ revisit' = (k \in DOMAIN seen)
            /\ seen' = IF k \in DOMAIN seen THEN seen ELSE seen @@ (k :> d)

slider_max_shape(array) == shape_z(array)

\* max=data.shape[2]-1
slider_max(array) == shape_z(array) - 1

\* interact(update, z=widgets.IntSlider(value=0, min=0, max=..., step=1)):
\* the widget is shown and update runs once for the initial value
CompareCell ==
    /\ pc = "compare"
    /\ slider' = Some([value |-> 0, min |-> 0, max |-> slider_max(Get(data))])
    /\ RunUpdate(0)
    /\ pc' = next_cell(pc)
    /\ UNCHANGED <<error, image_id, store_nz, store_labels_nz, call, opened,
                   image_chunks_read, data, labels, model_versatile, img,
                   results, pretrained_calls, predict_calls, label_slices>>

\* the user releases the slider on another value: update runs for it
SliderMove ==
    /\ pc = "interactive"
    /\ \E v \in Get(slider).min .. Get(slider).max :
          /\ v # Get(slider).value
          /\ slider' = Some([Get(slider) EXCEPT !.value = v])
          /\ RunUpdate(v)
    /\ UNCHANGED <<pc, error, image_id, store_nz, store_labels_nz, call, opened,
                   image_chunks_read, data, labels, model_versatile, img,
                   results, pretrained_calls, predict_calls, label_slices>>

Next ==
    \/ ConfigureCell
    \/ LoadBinaryCell
    \/ LoadLabelsCell
    \/ LoadModelCell
    \/ InferenceStart
    \/ PredictPlane
    \/ InferenceEnd
    \/ CompareCell
    \/ SliderMove

Spec == Init /\ [][Next]_vars

(***************************************************************************)
(* The helpers on their own, called with any id and resolution             *)
(***************************************************************************)
ImageIds == (0 .. MaxId) \cup {IDR_IMAGE_ID}

ResolutionArgs == {Omitted, <<"0">>, <<"1">>, <<"2">>}

CallLoadBinary ==
    /\ call = None
    /\ \E id \in ImageIds, resolution \in ResolutionArgs, ok \in BOOLEAN :
          load_binary_from_s3(id, resolution, ok)
    /\ UNCHANGED <<pc, error, image_id, store_nz, store_labels_nz, data, labels,
                   model_versatile, img, results, pretrained_calls, predict_calls, label_slices,
                   slider, display, seen, revisit>>

CallLoadLabels ==
    /\ call = None
    /\ \E id \in ImageIds, resolution \in ResolutionArgs, ok \in BOOLEAN :
          load_labels_from_s3(id, resolution, ok)
    /\ UNCHANGED <<pc, error, image_id, store_nz, store_labels_nz, data, labels,
                   model_versatile, img, results, pretrained_calls, predict_calls, label_slices,
                   slider, display, seen, revisit>>

NextUrl == CallLoadBinary \/ CallLoadLabels

SpecUrl == Init /\ [][NextUrl]_vars

(***************************************************************************)
(* Properties                                                              *)
(***************************************************************************)
\* 'https://s3.embassy.ebi.ac.uk'
Endpoint ==
    <<"h","t","t","p","s",":","/","/","s","3",".","e","m","b","a","s","s","y",
      ".","e","b","i",".","a","c",".","u","k">>

\* '<endpoint>/idr/zarr/v0.1/<id>.zarr/'
ZarrGroupUrl(id) ==
    Endpoint \o <<"/">>
        \o <<"i","d","r","/","z","a","r","r","/","v","0",".","1","/">>
        \o IntToStr(id) \o <<".","z","a","r","r","/">>

\* the resolution segment of a call: '0' when the argument is left out
Segment(c) == IF c.resolution = Omitted THEN <<"0">> ELSE c.resolution

IsCall(fn) == call # None /\ Get(call).fn = fn

\* C1: load_binary_from_s3(id, resolution) opens exactly
\* '<endpoint>/idr/zarr/v0.1/<id>.zarr/<resolution>/', with one slash between
\* endpoint and path and a trailing slash; resolution is '0' when left out.
C1_BinaryUrl ==
    IsCall("load_binary_from_s3") =>
        LET c == Get(call)
        IN  /\ c.url = ZarrGroupUrl(c.id) \o Segment(c) \o <<"/">>
            /\ opened = <<c.url>>

C1_Witness ==
    /\ IsCall("load_binary_from_s3")
    /\ Get(call).id = IDR_IMAGE_ID
    /\ Get(call).resolution = Omitted
    /\ Len(opened) = 1

\* C2 as stated: the label URL is the whole URL load_binary_from_s3 opens for
\* the same arguments, followed by 'labels/<resolution>/'.
C2_LabelsUrlAppendsToBinaryUrl ==
    IsCall("load_labels_from_s3") =>
        LET c == Get(call)
        IN  c.url = load_binary_url(c.id, Segment(c))
                        \o <<"l","a","b","e","l","s","/">> \o Segment(c) \o <<"/">>

\* C2 amended: the label URL is the URL load_binary_from_s3 opens for the same
\* arguments without its final '<resolution>/' segment (the Zarr group of the
\* image), followed by 'labels/<resolution>/'.
C2_LabelsUrlUnderGroup ==
    IsCall("load_labels_from_s3") =>
        LET c     == Get(call)
            b     == load_binary_url(c.id, Segment(c))
            group == SubSeq(b, 1, Len(b) - Len(Segment(c)) - 1)
        IN  /\ b = group \o Segment(c) \o <<"/">>
            /\ c.url = group \o <<"l","a","b","e","l","s","/">>
                             \o Segment(c) \o <<"/">>
            /\ opened = <<c.url>>

C2_Witness ==
    /\ IsCall("load_labels_from_s3")
    /\ Get(call).id = IDR_IMAGE_ID
    /\ Get(call).resolution = <<"1">>
    /\ Len(opened) = 1

\* the label overlay of the last update call failed with exception e
OverlayRaised(e) == display # None /\ Get(display).label_outcome = e

\* the callback printed z, drew the right-hand panel and returned
PrintedAndWentOn ==
    LET d == Get(display)
    IN  /\ d.printed = <<d.z>>
        /\ d.raised = NoError
        /\ d.right_image # None
        /\ d.right_overlay # None
        /\ d.completed

\* C3 as stated: whatever exception the label overlay raises inside update(z),
\* z is printed, nothing propagates, the right-hand panel is drawn and the
\* callback completes.
C3_AnyExceptionCaught ==
    (\E e \in ExceptionClasses \cup BaseExceptionOnly : OverlayRaised(e))
        => PrintedAndWentOn

\* C3 amended: the same for every exception that derives from Exception;
\* KeyboardInterrupt and the other BaseException-only classes propagate.
C3_ExceptionCaught ==
    (\E e \in ExceptionClasses : OverlayRaised(e)) => PrintedAndWentOn

C3_Witness ==
    /\ OverlayRaised("OSError")
    /\ Get(display).z > 0
    /\ PrintedAndWentOn

\* C4 as stated: neither array has a chunk read from the store before a plane
\* is indexed by inference or by the callback.
C4_BothLazy ==
    (img = None /\ display = None) =>
        (image_chunks_read = {} /\ label_chunks_read = {})

\* C4 amended: only the label array is lazy. No label chunk is read before the
\* callback indexes a plane, and only planes the callback indexed are ever
\* read; the intensity array is read whole by load_binary_from_s3.
C4_LabelsLazyBinaryEager ==
    /\ display = None => label_chunks_read = {}
    /\ label_chunks_read \subseteq {k[1] : k \in DOMAIN seen}
    /\ opened = <<>> => image_chunks_read = {}
    /\ data # None => image_chunks_read = Channels \X Range0(store_nz)

C4_Witness ==
    /\ labels # None
    /\ display = None
    /\ label_chunks_read = {}
    /\ image_chunks_read = Channels \X Range0(store_nz)
    /\ store_nz > 1

NoDuplicates(list) ==
    \A i, j \in 1 .. Len(list) : list[i] = list[j] => i = j

\* C5: a failed remote open, model load or predict_instances call is made
\* once, its exception ends the run at that cell, and nothing after it runs.
C5_FailureStopsRun ==
    error # NoError =>
        /\ pc = "stopped"
        /\ label_slices = None /\ slider = None /\ display = None
        /\ NoDuplicates(opened) /\ Len(opened) <= 2
        /\ Len(pretrained_calls) <= 1
        /\ NoDuplicates(predict_calls)
        /\ error = "load_binary_from_s3" =>
               /\ data = None /\ Len(opened) = 1
               /\ labels = None /\ pretrained_calls = <<>>
        /\ error = "load_labels_from_s3" =>
               labels = None /\ pretrained_calls = <<>>
        /\ error = "from_pretrained" =>
               model_versatile = None /\ img = None /\ predict_calls = <<>>
        /\ error = "predict_instances" =>
               /\ Len(predict_calls) = Len(results) + 1
               /\ predict_calls[Len(predict_calls)] = Len(results)

C5_Witness ==
    /\ error = "predict_instances"
    /\ pc = "stopped"
    /\ Len(results) >= 1
    /\ Len(results) < store_nz

\* C6: predict_instances is called once per z plane of data[0,0] in ascending
\* z order, and label_slices[z] is the prediction for plane z, for all
\* data.shape[2] planes.
C6_OnePredictionPerPlane ==
    label_slices # None =>
        LET nz   == shape_z(Get(data))
            norm == normalize(Get(data)[0][0])
        IN  /\ Len(Get(label_slices)) = nz
            /\ predict_calls = [i \in 1 .. nz |-> i - 1]
            /\ \A z \in Range0(nz) :
                  At(Get(label_slices), z) = predict_instances(norm[z])

C6_Witness ==
    /\ label_slices # None
    /\ Len(Get(label_slices)) = MaxZ

\* C7: configure, fetch binary, fetch labels, load model, infer every plane,
\* show the widget: each step finds the previous ones done, and update never
\* runs before label_slices holds a prediction for every plane.
C7_LinearOrder ==
    /\ data # None => image_id # None
    /\ labels # None => data # None
    /\ pretrained_calls # <<>> => labels # None
    /\ (img # None \/ predict_calls # <<>>) => model_versatile # None
    /\ label_slices # None => Len(predict_calls) = shape_z(Get(data))
    /\ (slider # None \/ display # None) =>
           /\ label_slices # None
           /\ Len(Get(label_slices)) = shape_z(Get(data))

C7_Witness ==
    /\ pc = "interactive"
    /\ display # None
    /\ Len(Get(label_slices)) = store_nz
    /\ store_nz > 1

\* C8: update(z) draws the same figure whenever it is called with the same z
\* (and the same outcome of the remote label read), whatever slider positions
\* came before, and it leaves data, labels and label_slices as they are.
C8_Stateless ==
    [][display' # None =>
          LET d == Get(display')
              k == <<d.z, d.label_outcome>>
          IN  /\ k \in DOMAIN seen'
              /\ d = seen'[k]
              /\ pc \in {"compare", "interactive"} =>
                     UNCHANGED <<data, labels, label_slices>>]_vars

C8_Witness ==
    /\ revisit
    /\ display # None
    /\ Cardinality(DOMAIN seen) >= 3

\* C9: the slider value stays within 0 .. data.shape[2]-1, and with the three
\* arrays aligned along z it is a valid plane index of data[0,0], labels[0,0]
\* and label_slices: no update call indexes out of range.
C9_SliderInRange ==
    slider # None =>
        LET z  == Get(slider).value
            nz == shape_z(Get(data))
            d  == Get(display)
        IN  /\ 0 <= z /\ z <= nz - 1
            /\ z \in DOMAIN Get(data)[0][0]
            /\ z < Len(Get(label_slices))
            /\ d.z = z
            /\ d.raised # "IndexError"
            /\ Get(labels).nz = nz =>
                   /\ z \in Range0(Get(labels).nz)
                   /\ d.label_outcome # "IndexError"

C9_Witness ==
    /\ slider # None
    /\ store_nz = MaxZ
    /\ Get(labels).nz = store_nz
    /\ Get(slider).value = store_nz - 1
    /\ Get(display).completed

\* C10: both panels of update(z) show data[0,0,z]; the left overlay, when
\* drawn, is the curated label plane z and the right overlay is the
\* prediction made from plane z of channel 0.
C10_LikeWithLike ==
    display # None =>
        LET d     == Get(display)
            plane == Get(data)[0][0][d.z]
        IN  /\ d.z = Get(slider).value
            /\ d.left_image = Some(plane)
            /\ d.right_image # None => d.right_image = Some(plane)
            /\ d.left_overlay # None =>
                   d.left_overlay = Some(StoreLabels(store_labels_nz)[0][0][d.z])
            /\ d.right_overlay # None =>
                   /\ Get(d.right_overlay) =
                          predict_instances(normalize(Get(data)[0][0])[d.z])
                   /\ Get(d.right_overlay).instances_of.x = plane

C10_Witness ==
    /\ display # None
    /\ Get(display).z > 0
    /\ Get(display).left_overlay # None
    /\ Get(display).right_overlay # None

====
